---- MODULE Spec2Model ----
(***************************************************************************)
(* Document Q&A assistant (rakeshkr-code/document-qa-rag).                 *)
(*                                                                         *)
(* The Vector Store Manager (src/src/vectorstore.py), the Answer Pipeline  *)
(* (src/src/retrieval_chain.py), the Document Processor                    *)
(* (src/src/document_loader.py), the ingestion run (src/ingest.py) and the *)
(* serving run (src/app.py) as state machines.  Every method is a pure     *)
(* operator from the state it reads and its inputs to the state it leaves  *)
(* and what it returns or raises; the actions of each specification wire   *)
(* the operators to the variables.                                         *)
(*                                                                         *)
(* Text is a sequence of one-character strings.  The embedding model is a  *)
(* fixed function of the text (Embed); the third-party index is modelled   *)
(* by its documented contract: get-or-create on open, append on add,       *)
(* nearest neighbours first on query.                                      *)
(***************************************************************************)
EXTENDS Integers, Sequences, FiniteSets, TLC

VARIABLES
    disk,         \* the collection COLLECTION_NAME persisted under VECTORSTORE_DIR
    mem,          \* the in-process collection used when persist = False
    vectorstore,  \* VectorStoreManager.vectorstore: "None", or the store its handle is on
    chain,        \* the RAGChain object a caller holds (NoChain: none constructed)
    last,         \* the last operation, what it returned or raised, and the state it met
    initDone,     \* history: some create_vectorstore or load_vectorstore has completed
    given,        \* what the run was started on (the documents directory, the passages to render)
    pc,           \* where the process is in its script
    exitStatus,   \* the status the process exited with (Running while it has not)
    events,       \* history: the steps of the script that have completed, in order
    served        \* history: the outcomes of the submissions answered so far

vars == <<disk, mem, vectorstore, chain, last, initDone, given, pc, exitStatus,
          events, served>>

\* The variables of a run: untouched when the components are driven directly.
run == <<given, pc, exitStatus, events, served>>

----------------------------------------------------------------------------
(* Program constants *)

TOP_K_RESULTS == 4
CHUNK_SIZE == 1000
CHUNK_OVERLAP == 200
PREVIEW_LEN == 150

(* Bounds of the model *)

MaxTextLen == 2     \* texts have 1..MaxTextLen characters
MaxStoreDocs == 2   \* SpecStore: a collection holds at most this many entries
MaxDocs == 5        \* SpecRetrieve: a persisted collection holds at most this many entries
MaxK == 5           \* retrieval depths tried: 1..MaxK

----------------------------------------------------------------------------
(* Values *)

Min(a, b) == IF a <= b THEN a ELSE b

Abs(a) == IF a < 0 THEN 0 - a ELSE a

\* A text of n characters.
Text(n) == [i \in 1..n |-> "x"]

Texts == {Text(n) : n \in 1..MaxTextLen}

\* langchain Document: page_content and a metadata dictionary.
Document(content, meta) == [page_content |-> content, metadata |-> meta]

\* A chunk as the ingestion run produces it.
Chunk(n, id) ==
    Document(Text(n), [source |-> "a.pdf", page |-> 0, chunk_id |-> id])

NoExc == [type |-> "None", msg |-> ""]

Raise(type, msg) == [type |-> type, msg |-> msg]

NoCollection == [exists |-> FALSE, docs |-> <<>>]

NoRetriever == [store |-> "None", k |-> 0]

NoChain == [built |-> FALSE, retriever |-> NoRetriever]

NoResult == [answer |-> "", context |-> <<>>, question |-> <<>>]

Running == 0 - 1

NoServed == [ok |-> FALSE, failed |-> FALSE, blank |-> FALSE]

\* No run: the components are driven directly.
NoRun ==
    /\ given = <<>>
    /\ pc = "component"
    /\ exitStatus = Running
    /\ events = <<>>
    /\ served = NoServed

----------------------------------------------------------------------------
(* The embedding model and the index *)

\* HuggingFaceEmbeddings: a fixed function of the text, the same for passages
\* and queries.  One dimension stands for the vector.
Embed(text) == Len(text)

\* Distance of a stored passage to the query: smaller is more similar.
Distance(query, doc) == Abs(Embed(query) - Embed(doc.page_content))

\* The entry of S nearest to the query, the earliest inserted among equals.
Nearest(docs, S, query) ==
    CHOOSE i \in S : \A j \in S :
        \/ Distance(query, docs[i]) < Distance(query, docs[j])
        \/ Distance(query, docs[i]) = Distance(query, docs[j]) /\ i <= j

RECURSIVE NearestFrom(_, _, _, _)
NearestFrom(docs, S, query, k) ==
    IF k = 0 \/ S = {} THEN <<>>
    ELSE LET i == Nearest(docs, S, query)
         IN  <<docs[i]>> \o NearestFrom(docs, S \ {i}, query, k - 1)

\* Chroma.similarity_search(query, k) on an open collection.
ChromaSearch(coll, query, k, backendOk) ==
    IF ~coll.exists
    THEN [raised |-> Raise("ChromaError", "Collection does not exist"), passages |-> <<>>]
    ELSE IF ~backendOk
    THEN [raised |-> Raise("EmbeddingError", "embedding backend failed"), passages |-> <<>>]
    ELSE [raised |-> NoExc,
          passages |-> NearestFrom(coll.docs, 1..Len(coll.docs), query, k)]

\* Chroma(collection_name, persist_directory): opens the collection, creating
\* it empty when it is not there.
ChromaOpen(coll) == [exists |-> TRUE, docs |-> coll.docs]

StoreOf(name, d, m) ==
    IF name = "disk" THEN d ELSE IF name = "mem" THEN m ELSE NoCollection

----------------------------------------------------------------------------
(* VectorStoreManager *)

\* __init__: self.vectorstore = None
VectorStoreManagerInit == "None"

\* create_vectorstore(documents, persist): Chroma.from_documents opens the
\* collection, embeds every document and adds it; the handle is stored only
\* when that returns.
create_vectorstore(vs, d, m, documents, persist, backendOk) ==
    LET target == IF persist THEN "disk" ELSE "mem"
        opened == ChromaOpen(StoreOf(target, d, m))
        filled == [exists |-> TRUE, docs |-> opened.docs \o documents]
        after  == IF backendOk THEN filled ELSE opened
    IN  [vectorstore |-> IF backendOk THEN target ELSE vs,
         disk |-> IF persist THEN after ELSE d,
         mem  |-> IF persist THEN m ELSE after,
         raised |-> IF backendOk THEN NoExc
                    ELSE Raise("EmbeddingError", "embedding backend failed"),
         embedded |-> IF backendOk THEN Len(documents) ELSE 0]

\* load_vectorstore(): Chroma(collection_name, embedding_function,
\* persist_directory); no existence check, nothing embedded.
load_vectorstore(vs, d, backendOk) ==
    IF backendOk
    THEN [vectorstore |-> "disk", disk |-> ChromaOpen(d), raised |-> NoExc, embedded |-> 0]
    ELSE [vectorstore |-> vs, disk |-> d,
          raised |-> Raise("ChromaError", "cannot open the vector store"), embedded |-> 0]

get_retriever_unchecked(vs, k) ==
    [raised |-> NoExc, retriever |-> [store |-> vs, k |-> k]]

get_retriever_deeper(vs, k) ==
    IF vs = "None"
    THEN [raised |-> Raise("ValueError",
                           "Vector store not initialized. Call load_vectorstore() first."),
          retriever |-> NoRetriever]
    ELSE [raised |-> NoExc, retriever |-> [store |-> vs, k |-> k + 1]]

\* get_retriever(k): as_retriever(search_type="similarity", search_kwargs={"k": k})
get_retriever(vs, k) ==
    IF vs = "None"
    THEN [raised |-> Raise("ValueError",
                           "Vector store not initialized. Call load_vectorstore() first."),
          retriever |-> NoRetriever]
    ELSE [raised |-> NoExc, retriever |-> [store |-> vs, k |-> k]]

\* similarity_search(query, k)
similarity_search(vs, d, m, query, k, backendOk) ==
    IF vs = "None"
    THEN [raised |-> Raise("ValueError", "Vector store not initialized."),
          passages |-> <<>>]
    ELSE ChromaSearch(StoreOf(vs, d, m), query, k, backendOk)

delete_collection_reset(vs, d, m) ==
    [vectorstore |-> "None",
     disk |-> IF vs = "disk" THEN NoCollection ELSE d,
     mem  |-> IF vs = "mem" THEN NoCollection ELSE m,
     raised |-> NoExc]

\* delete_collection(): nothing when there is no handle; otherwise removes the
\* collection the handle is on (the index refuses when it is already gone);
\* self.vectorstore is not assigned.
delete_collection(vs, d, m) ==
    [vectorstore |-> vs,
     disk |-> IF vs = "disk" THEN NoCollection ELSE d,
     mem  |-> IF vs = "mem" THEN NoCollection ELSE m,
     raised |-> IF vs # "None" /\ ~StoreOf(vs, d, m).exists
                THEN Raise("ChromaError", "Collection does not exist")
                ELSE NoExc]

\* The retriever get_retriever returned, invoked with a query.
RetrieverInvoke(r, d, m, query, backendOk) ==
    ChromaSearch(StoreOf(r.store, d, m), query, r.k, backendOk)

----------------------------------------------------------------------------
(* RAGChain *)

\* _build_chain(): get_retriever() with its default k, then the two chains.
build_chain(vs) == get_retriever(vs, TOP_K_RESULTS)

RAGChainInit_lazy(vs, llmOk) ==
    IF ~llmOk
    THEN [raised |-> Raise("LLMError", "cannot set up the language model"), chain |-> NoChain]
    ELSE [raised |-> NoExc,
          chain |-> [built |-> TRUE, retriever |-> [store |-> vs, k |-> TOP_K_RESULTS]]]

\* __init__(vectorstore_manager): the LLM client, the prompt, then _build_chain().
RAGChainInit(vs, llmOk) ==
    IF ~llmOk
    THEN [raised |-> Raise("LLMError", "cannot set up the language model"), chain |-> NoChain]
    ELSE LET r == build_chain(vs)
         IN  IF r.raised # NoExc
             THEN [raised |-> r.raised, chain |-> NoChain]
             ELSE [raised |-> NoExc, chain |-> [built |-> TRUE, retriever |-> r.retriever]]

\* query(question): chain.invoke retrieves, then generates; the response's
\* context is what the retriever returned.
query(c, d, m, question, backendOk, llmOk) ==
    LET got == RetrieverInvoke(c.retriever, d, m, question, backendOk)
    IN  IF got.raised # NoExc
        THEN [raised |-> got.raised, result |-> NoResult]
        ELSE IF ~llmOk
        THEN [raised |-> Raise("GenerationError", "language model unreachable"),
              result |-> NoResult]
        ELSE [raised |-> NoExc,
              result |-> [answer |-> "answer", context |-> got.passages,
                          question |-> question]]

\* A string the front end displays, as its pieces in order: a fixed text, a
\* rendered source entry, or the separator join puts between entries.  The
\* empty string has no piece.
TextPiece(text) ==
    [kind |-> "text", text |-> text, num |-> "", file |-> "", page |-> "",
     preview |-> <<>>]

Separator == TextPiece("\n")

Str(text) == IF text = "" THEN <<>> ELSE <<TextPiece(text)>>

\* "[{i}] File: {source_file} | Page: {page}\n    Content: {content_preview}...\n"
EntryPiece(i, source_file, page, content_preview) ==
    [kind |-> "entry", text |-> "", num |-> ToString(i), file |-> source_file,
     page |-> page, preview |-> content_preview]

\* dict.get(key, default) on a metadata dictionary, formatted as the f-string does.
MetaGet(meta, key, default) ==
    IF key \in DOMAIN meta
    THEN IF key = "source" THEN meta[key] ELSE ToString(meta[key])
    ELSE default

\* text[:n]
Prefix(text, n) == SubSeq(text, 1, Min(n, Len(text)))

\* "\n".join(sources)
RECURSIVE Join(_)
Join(sources) ==
    IF Len(sources) = 0 THEN <<>>
    ELSE IF Len(sources) = 1 THEN <<sources[1]>>
    ELSE <<sources[1], Separator>> \o Join(Tail(sources))

format_sources_from_zero(context) ==
    IF Len(context) = 0 THEN Str("No sources found.")
    ELSE Join([i \in 1..Len(context) |->
                 EntryPiece(i - 1,
                            MetaGet(context[i].metadata, "source", "Unknown"),
                            MetaGet(context[i].metadata, "page", "N/A"),
                            Prefix(context[i].page_content, PREVIEW_LEN))])

\* format_sources(context)
format_sources(context) ==
    IF Len(context) = 0 THEN Str("No sources found.")
    ELSE Join([i \in 1..Len(context) |->
                 EntryPiece(i,
                            MetaGet(context[i].metadata, "source", "Unknown"),
                            MetaGet(context[i].metadata, "page", "N/A"),
                            Prefix(context[i].page_content, PREVIEW_LEN))])


----------------------------------------------------------------------------
(* The manager and the pipeline as components: any caller, any order *)

Idle == [op |-> "none", raised |-> NoExc, passages |-> <<>>, embedded |-> 0,
         k |-> 0, query |-> <<>>, wasInit |-> FALSE, everInit |-> FALSE,
         absent |-> FALSE, vsBefore |-> "None"]

\* What an operation met when it began.
Met(op) == [Idle EXCEPT !.op = op, !.wasInit = (vectorstore # "None"),
                        !.everInit = initDone, !.absent = ~disk.exists,
                        !.vsBefore = vectorstore]

\* The batches of chunks a caller builds a collection from.
StoreBatches == {<<Chunk(1, 0)>>, <<Chunk(2, 0), Chunk(1, 1)>>}

StoreCreate ==
    \E documents \in StoreBatches, persist \in BOOLEAN, backendOk \in BOOLEAN :
        LET r == create_vectorstore(vectorstore, disk, mem, documents, persist, backendOk)
        IN  /\ Len(StoreOf(IF persist THEN "disk" ELSE "mem", disk, mem).docs)
                 + Len(documents) <= MaxStoreDocs
            /\ vectorstore' = r.vectorstore
            /\ disk' = r.disk
            /\ mem' = r.mem
            /\ last' = [Met("create_vectorstore") EXCEPT !.raised = r.raised,
                                                          !.embedded = r.embedded]
            /\ initDone' = (initDone \/ r.raised = NoExc)
            /\ UNCHANGED <<chain, run>>

StoreLoad ==
    \E backendOk \in BOOLEAN :
        LET r == load_vectorstore(vectorstore, disk, backendOk)
        IN  /\ vectorstore' = r.vectorstore
            /\ disk' = r.disk
            /\ last' = [Met("load_vectorstore") EXCEPT !.raised = r.raised,
                                                        !.embedded = r.embedded]
            /\ initDone' = (initDone \/ r.raised = NoExc)
            /\ UNCHANGED <<mem, chain, run>>

StoreGetRetriever ==
    \E k \in 1..MaxK :
        LET r == get_retriever(vectorstore, k)
        IN  /\ last' = [Met("get_retriever") EXCEPT !.raised = r.raised, !.k = k]
            /\ UNCHANGED <<disk, mem, vectorstore, chain, initDone, run>>

StoreSearch ==
    \E q \in Texts, k \in 1..MaxK, backendOk \in BOOLEAN :
        LET r == similarity_search(vectorstore, disk, mem, q, k, backendOk)
        IN  /\ last' = [Met("similarity_search") EXCEPT !.raised = r.raised,
                                                         !.passages = r.passages,
                                                         !.k = k, !.query = q]
            /\ UNCHANGED <<disk, mem, vectorstore, chain, initDone, run>>

StoreDelete ==
    LET r == delete_collection(vectorstore, disk, mem)
    IN  /\ vectorstore' = r.vectorstore
        /\ disk' = r.disk
        /\ mem' = r.mem
        /\ last' = [Met("delete_collection") EXCEPT !.raised = r.raised]
        /\ UNCHANGED <<chain, initDone, run>>

StoreRAGChain ==
    \E llmOk \in BOOLEAN :
        LET r == RAGChainInit(vectorstore, llmOk)
        IN  /\ chain' = IF r.raised = NoExc THEN r.chain ELSE chain
            /\ last' = [Met("RAGChain") EXCEPT !.raised = r.raised]
            /\ UNCHANGED <<disk, mem, vectorstore, initDone, run>>

StoreQuery ==
    /\ chain.built
    /\ \E q \in Texts, backendOk \in BOOLEAN, llmOk \in BOOLEAN :
        LET r == query(chain, disk, mem, q, backendOk, llmOk)
        IN  /\ last' = [Met("query") EXCEPT !.raised = r.raised,
                                             !.passages = r.result.context,
                                             !.k = chain.retriever.k, !.query = q]
            /\ UNCHANGED <<disk, mem, vectorstore, chain, initDone, run>>

\* The persisted collections an earlier ingestion can have left for SpecStore.
StoreSeeds == {NoCollection, [exists |-> TRUE, docs |-> <<Chunk(2, 0)>>]}

InitStore ==
    /\ disk \in StoreSeeds
    /\ mem = NoCollection
    /\ vectorstore = VectorStoreManagerInit
    /\ chain = NoChain
    /\ last = Idle
    /\ initDone = FALSE
    /\ NoRun

NextStore ==
    \/ StoreCreate
    \/ StoreLoad
    \/ StoreGetRetriever
    \/ StoreSearch
    \/ StoreDelete
    \/ StoreRAGChain
    \/ StoreQuery

SpecStore == InitStore /\ [][NextStore]_vars

----------------------------------------------------------------------------
(* Retrieval over the collections an ingestion run can have persisted *)

\* The chunks of one ingestion run, in insertion order: chunk i has id i - 1.
ChunkRun(f, n) == [i \in 1..n |-> Chunk(f[i], i - 1)]

\* The chunks of a persisted collection are short or long: one character, or
\* as many as a text can have.
ChunkLens == {1, MaxTextLen}

RetrieveCollections ==
    {[exists |-> TRUE, docs |-> ChunkRun(f, n)] :
        f \in [1..MaxDocs -> ChunkLens], n \in 0..MaxDocs}

InitRetrieve ==
    /\ disk \in RetrieveCollections
    /\ mem = NoCollection
    /\ vectorstore = VectorStoreManagerInit
    /\ chain = NoChain
    /\ last = Idle
    /\ initDone = FALSE
    /\ NoRun

NextRetrieve ==
    \/ StoreLoad
    \/ StoreGetRetriever
    \/ StoreSearch
    \/ StoreRAGChain
    \/ StoreQuery

SpecRetrieve == InitRetrieve /\ [][NextRetrieve]_vars

----------------------------------------------------------------------------
(* Claims on the Vector Store Manager and the Answer Pipeline *)

NotInitializedMsgs ==
    {"Vector store not initialized.",
     "Vector store not initialized. Call load_vectorstore() first."}

IsNotInitialized(e) == e.type = "ValueError" /\ e.msg \in NotInitializedMsgs

RetrievalOps == {"similarity_search", "get_retriever"}

\* C3: on a manager on which no create_vectorstore or load_vectorstore has
\* completed, similarity_search and get_retriever raise the ValueError
\* "Vector store not initialized" and return no passage; once one has
\* completed, they never raise that error again.
C3_NotInitializedUntilBuildOrLoad ==
    last.op \in RetrievalOps =>
        /\ ~last.everInit => IsNotInitialized(last.raised) /\ last.passages = <<>>
        /\ last.everInit => ~IsNotInitialized(last.raised)

C3_Witness ==
    /\ last.op = "similarity_search"
    /\ ~last.everInit
    /\ IsNotInitialized(last.raised)

C6_LoadFailsOnMissingCollection ==
    last.op = "load_vectorstore" =>
        /\ last.absent => /\ last.raised # NoExc
                          /\ vectorstore = last.vsBefore
                          /\ ~disk.exists
        /\ ~last.absent => last.embedded = 0

NonIncreasingSimilarity(q, ps) ==
    \A i, j \in 1..Len(ps) : i < j => Distance(q, ps[i]) <= Distance(q, ps[j])

\* C8: similarity_search(query, k) on an initialized manager returns at most
\* k passages, nearest first; query retrieves with k = TOP_K_RESULTS, so an
\* Answer record carries at most TOP_K_RESULTS passages, exactly those
\* retrieval returns for the question and in that order.
C8_AtMostKNearestFirst ==
    /\ last.op = "similarity_search" =>
           /\ Len(last.passages) <= last.k
           /\ NonIncreasingSimilarity(last.query, last.passages)
    /\ last.op = "query" =>
           /\ Len(last.passages) <= TOP_K_RESULTS
           /\ NonIncreasingSimilarity(last.query, last.passages)
           /\ last.raised = NoExc =>
                  last.passages =
                      similarity_search(vectorstore, disk, mem, last.query,
                                        TOP_K_RESULTS, TRUE).passages

C8_Witness ==
    /\ last.op = "query"
    /\ last.raised = NoExc
    /\ Len(disk.docs) > TOP_K_RESULTS
    /\ Len(last.passages) = TOP_K_RESULTS
    /\ \E i \in 1..(TOP_K_RESULTS - 1) :
           Distance(last.query, last.passages[i]) < Distance(last.query, last.passages[i + 1])

----------------------------------------------------------------------------
(* format_sources over the passage lists a caller can hand it *)

MaxContext == 2     \* SpecFmt: a passage list holds at most this many passages

\* A page text of n characters whose first, and whose characters past the
\* preview, differ from the rest.
Content(n) ==
    [i \in 1..n |-> IF i = 1 THEN "a" ELSE IF i > PREVIEW_LEN THEN "z" ELSE "x"]

FmtContents ==
    {Content(n) : n \in {0, 1, PREVIEW_LEN, PREVIEW_LEN + 1}}

\* Metadata with and without the keys format_sources looks up.
FmtMetadata ==
    {[source |-> "a.pdf", page |-> 0], [source |-> "b.pdf"], [page |-> 3],
     [chunk_id |-> 0]}

FmtDocs == {Document(c, m) : c \in FmtContents, m \in FmtMetadata}

FmtContexts ==
    UNION {[1..n -> FmtDocs] : n \in 0..MaxContext}

FmtIdle == [op |-> "none", out |-> <<>>]

InitFmt ==
    /\ given \in FmtContexts
    /\ last = FmtIdle
    /\ pc = "start"
    /\ disk = NoCollection
    /\ mem = NoCollection
    /\ vectorstore = VectorStoreManagerInit
    /\ chain = NoChain
    /\ initDone = FALSE
    /\ exitStatus = Running
    /\ events = <<>>
    /\ served = NoServed

FmtFormat ==
    /\ pc = "start"
    /\ last' = [op |-> "format_sources", out |-> format_sources(given)]
    /\ pc' = "done"
    /\ UNCHANGED <<disk, mem, vectorstore, chain, initDone, given, exitStatus,
                   events, served>>

NextFmt == FmtFormat

SpecFmt == InitFmt /\ [][NextFmt]_vars

\* The entries of a rendered string, in order.
Entries(out) == SelectSeq(out, LAMBDA piece : piece.kind = "entry")

\* C7: format_sources returns exactly "No sources found." on an empty list;
\* on n passages it renders exactly n entries numbered 1..n in the order of
\* the list, each with the passage's source file ("Unknown" when absent), its
\* page ("N/A" when absent) and the first 150 characters of its content at most.
C7_FormatSources ==
    last.op = "format_sources" =>
        LET n == Len(given)
            es == Entries(last.out)
        IN  /\ n = 0 => last.out = <<TextPiece("No sources found.")>>
            /\ n > 0 =>
                /\ Len(es) = n
                /\ Len(last.out) = 2 * n - 1
                /\ \A i \in 1..Len(last.out) :
                       last.out[i].kind = (IF i % 2 = 1 THEN "entry" ELSE "text")
                /\ \A i \in 1..n :
                    LET doc == given[i]
                    IN  /\ es[i].num = ToString(i)
                        /\ es[i].file = (IF "source" \in DOMAIN doc.metadata
                                         THEN doc.metadata.source ELSE "Unknown")
                        /\ es[i].page = (IF "page" \in DOMAIN doc.metadata
                                         THEN ToString(doc.metadata.page) ELSE "N/A")
                        /\ Len(es[i].preview) <= PREVIEW_LEN
                        /\ Len(es[i].preview) = Min(PREVIEW_LEN, Len(doc.page_content))
                        /\ \A j \in 1..Len(es[i].preview) :
                               es[i].preview[j] = doc.page_content[j]

C7_Witness ==
    /\ last.op = "format_sources"
    /\ Len(given) = 2
    /\ Len(given[1].page_content) > PREVIEW_LEN
    /\ "source" \notin DOMAIN given[2].metadata
    /\ "page" \notin DOMAIN given[1].metadata
    /\ Len(Entries(last.out)) = 2

----------------------------------------------------------------------------
(* The serving run: app.py *)

MaxQuestionLen == 2   \* questions have at most this many characters

Whitespace == {" ", "\n"}

QuestionChars == Whitespace \cup {"q"}

Questions == UNION {[1..n -> QuestionChars] : n \in 0..MaxQuestionLen}

\* str.strip(): leading and trailing whitespace removed.
RECURSIVE lstrip(_)
lstrip(text) ==
    IF Len(text) > 0 /\ Head(text) \in Whitespace THEN lstrip(Tail(text)) ELSE text

RECURSIVE rstrip(_)
rstrip(text) ==
    IF Len(text) > 0 /\ text[Len(text)] \in Whitespace
    THEN rstrip(SubSeq(text, 1, Len(text) - 1))
    ELSE text

strip(text) == rstrip(lstrip(text))

answer_question_uncaught(c, d, m, question, show_sources, backendOk, llmOk, fmtExc) ==
    IF Len(strip(question)) = 0
    THEN [answer |-> "Please enter a question.", sources |-> Str(""),
          raised |-> NoExc, queries |-> 0]
    ELSE LET r == query(c, d, m, question, backendOk, llmOk)
             e == IF r.raised # NoExc THEN r.raised
                  ELSE IF show_sources THEN fmtExc ELSE NoExc
         IN  [answer |-> r.result.answer,
              sources |-> IF e # NoExc THEN Str("")
                          ELSE IF show_sources THEN format_sources(r.result.context)
                          ELSE Str("Sources hidden (enable 'Show Sources' to view)"),
              raised |-> e, queries |-> 1]

answer_question_unstripped(c, d, m, question, show_sources, backendOk, llmOk, fmtExc) ==
    IF Len(question) = 0
    THEN [answer |-> "Please enter a question.", sources |-> Str(""),
          raised |-> NoExc, queries |-> 0]
    ELSE LET r == query(c, d, m, question, backendOk, llmOk)
             e == IF r.raised # NoExc THEN r.raised
                  ELSE IF show_sources THEN fmtExc ELSE NoExc
         IN  IF e # NoExc
             THEN [answer |-> "Error: " \o e.msg, sources |-> Str(""),
                   raised |-> NoExc, queries |-> 1]
             ELSE [answer |-> r.result.answer,
                   sources |-> IF show_sources THEN format_sources(r.result.context)
                               ELSE Str("Sources hidden (enable 'Show Sources' to view)"),
                   raised |-> NoExc, queries |-> 1]

\* answer_question(question, show_sources) on the module's rag_chain.  fmtExc
\* is the exception raised while the sources are formatted (NoExc: none).
\* raised is the exception that leaves the function; queries counts its calls
\* of rag_chain.query.
answer_question(c, d, m, question, show_sources, backendOk, llmOk, fmtExc) ==
    IF Len(strip(question)) = 0
    THEN [answer |-> "Please enter a question.", sources |-> Str(""),
          raised |-> NoExc, queries |-> 0]
    ELSE LET r == query(c, d, m, question, backendOk, llmOk)
             e == IF r.raised # NoExc THEN r.raised
                  ELSE IF show_sources THEN fmtExc ELSE NoExc
         IN  IF e # NoExc
             THEN [answer |-> "Error: " \o e.msg, sources |-> Str(""),
                   raised |-> NoExc, queries |-> 1]
             ELSE [answer |-> r.result.answer,
                   sources |-> IF show_sources THEN format_sources(r.result.context)
                               ELSE Str("Sources hidden (enable 'Show Sources' to view)"),
                   raised |-> NoExc, queries |-> 1]

InitFailed_fallthrough == [pc |-> "ready", exitStatus |-> Running]

\* except Exception: the two prints, then exit(1).
InitFailed == [pc |-> "exited", exitStatus |-> 1]

ServeIdle == [op |-> "none", raised |-> NoExc, question |-> <<>>, show |-> FALSE,
              answer |-> "", sources |-> <<>>, queries |-> 0, failure |-> NoExc]

Step(op, raised) == [ServeIdle EXCEPT !.op = op, !.raised = raised]

\* The script goes on to `next` when the call returned, to the handler when it raised.
After(raised, next, event) ==
    /\ pc' = IF raised = NoExc THEN next ELSE InitFailed.pc
    /\ exitStatus' = IF raised = NoExc THEN exitStatus ELSE InitFailed.exitStatus
    /\ events' = IF raised = NoExc THEN Append(events, event) ELSE events

\* vs_manager = VectorStoreManager()
ServeNewManager ==
    /\ pc = "start"
    /\ \E modelOk \in BOOLEAN :
        LET raised == IF modelOk THEN NoExc
                      ELSE Raise("EmbeddingError", "cannot load the embedding model")
        IN  /\ vectorstore' = IF modelOk THEN VectorStoreManagerInit ELSE vectorstore
            /\ last' = Step("VectorStoreManager", raised)
            /\ After(raised, "manager", "VectorStoreManager")
    /\ UNCHANGED <<disk, mem, chain, initDone, given, served>>

\* vs_manager.load_vectorstore()
ServeLoad ==
    /\ pc = "manager"
    /\ \E backendOk \in BOOLEAN :
        LET r == load_vectorstore(vectorstore, disk, backendOk)
        IN  /\ vectorstore' = r.vectorstore
            /\ disk' = r.disk
            /\ initDone' = (initDone \/ r.raised = NoExc)
            /\ last' = Step("load_vectorstore", r.raised)
            /\ After(r.raised, "loaded", "load_vectorstore")
    /\ UNCHANGED <<mem, chain, given, served>>

\* rag_chain = RAGChain(vs_manager)
ServeRAGChain ==
    /\ pc = "loaded"
    /\ \E llmOk \in BOOLEAN :
        LET r == RAGChainInit(vectorstore, llmOk)
        IN  /\ chain' = IF r.raised = NoExc THEN r.chain ELSE chain
            /\ last' = Step("RAGChain", r.raised)
            /\ After(r.raised, "ready", "RAGChain")
    /\ UNCHANGED <<disk, mem, vectorstore, initDone, given, served>>

\* demo.launch(...): an exception here is not handled and ends the process.
ServeLaunch ==
    /\ pc = "ready"
    /\ \E portOk \in BOOLEAN :
        /\ pc' = IF portOk THEN "serving" ELSE "exited"
        /\ exitStatus' = IF portOk THEN exitStatus ELSE 1
        /\ events' = IF portOk THEN Append(events, "launch") ELSE events
        /\ last' = Step("launch", IF portOk THEN NoExc
                                  ELSE Raise("OSError", "cannot bind the port"))
    /\ UNCHANGED <<disk, mem, vectorstore, chain, initDone, given, served>>

FormatFailures == {NoExc, Raise("TypeError", "cannot format the sources")}

\* One submission of the form: submit_btn.click / question_input.submit.
ServeSubmit ==
    /\ pc = "serving"
    /\ \E question \in Questions, show_sources \in BOOLEAN, backendOk \in BOOLEAN,
          llmOk \in BOOLEAN, fmtExc \in FormatFailures :
        LET r == answer_question(chain, disk, mem, question, show_sources,
                                 backendOk, llmOk, fmtExc)
            q == query(chain, disk, mem, question, backendOk, llmOk)
            blank == \A i \in 1..Len(question) : question[i] \in Whitespace
            failure == IF blank THEN NoExc
                       ELSE IF q.raised # NoExc THEN q.raised
                       ELSE IF show_sources THEN fmtExc ELSE NoExc
        IN  /\ last' = [op |-> "answer_question", raised |-> r.raised,
                        question |-> question, show |-> show_sources,
                        answer |-> r.answer, sources |-> r.sources,
                        queries |-> r.queries, failure |-> failure]
            /\ pc' = IF r.raised = NoExc THEN "serving" ELSE "crashed"
            /\ served' = IF blank THEN [served EXCEPT !.blank = TRUE]
                         ELSE IF failure # NoExc THEN [served EXCEPT !.failed = TRUE]
                         ELSE [served EXCEPT !.ok = TRUE]
    /\ UNCHANGED <<disk, mem, vectorstore, chain, initDone, given, exitStatus, events>>

\* What the vector-store directory holds when the serving run starts:
\* nothing (no ingestion yet), or the chunks of an ingestion run.
ServeSeeds ==
    {NoCollection,
     [exists |-> TRUE, docs |-> <<Chunk(2, 0), Chunk(1, 1)>>]}

InitServe ==
    /\ disk \in ServeSeeds
    /\ mem = NoCollection
    /\ vectorstore = "None"
    /\ chain = NoChain
    /\ last = ServeIdle
    /\ initDone = FALSE
    /\ given = <<>>
    /\ pc = "start"
    /\ exitStatus = Running
    /\ events = <<>>
    /\ served = NoServed

NextServe ==
    \/ ServeNewManager
    \/ ServeLoad
    \/ ServeRAGChain
    \/ ServeLaunch
    \/ ServeSubmit

SpecServe == InitServe /\ [][NextServe]_vars

IsBlank(question) == \A i \in 1..Len(question) : question[i] \in Whitespace

\* C1: when the pipeline fails on a non-blank question (rag_chain.query or
\* format_sources raises), answer_question raises nothing and returns
\* ("Error: <message>", ""); whatever was submitted before, the process is
\* still serving.
C1_QueryFailureIsReported ==
    /\ pc # "crashed"
    /\ last.op = "answer_question" =>
        /\ pc = "serving"
        /\ last.raised = NoExc
        /\ last.failure # NoExc =>
            /\ ~IsBlank(last.question)
            /\ last.answer = "Error: " \o last.failure.msg
            /\ last.sources = <<>>

C1_Witness ==
    /\ last.op = "answer_question"
    /\ last.failure.type = "TypeError"
    /\ last.answer = "Error: cannot format the sources"
    /\ served.ok
    /\ served.blank
    /\ served.failed
    /\ pc = "serving"

\* C2: on a question that is empty or only whitespace, answer_question
\* returns ("Please enter a question.", "") and makes no call of
\* rag_chain.query, whatever show_sources is.
C2_BlankQuestionShortCircuits ==
    (last.op = "answer_question" /\ IsBlank(last.question)) =>
        /\ last.answer = "Please enter a question."
        /\ last.sources = <<>>
        /\ last.queries = 0
        /\ last.raised = NoExc

C2_Witness ==
    /\ last.op = "answer_question"
    /\ Len(last.question) > 0
    /\ IsBlank(last.question)
    /\ last.show
    /\ last.queries = 0
    /\ last.answer = "Please enter a question."

StartupOrder == <<"VectorStoreManager", "load_vectorstore", "RAGChain", "launch">>

StartupOps == {"VectorStoreManager", "load_vectorstore", "RAGChain"}

IsPrefix(a, b) == Len(a) <= Len(b) /\ SubSeq(b, 1, Len(a)) = a

\* C10: in a serving run the manager is loaded, then the pipeline is
\* constructed, and only then does the front end answer; when loading or
\* construction raises, the process exits with status 1 and the front end is
\* never started, so no question is answered without a constructed pipeline.
C10_ServingOrder ==
    /\ IsPrefix(events, StartupOrder)
    /\ pc = "serving" => events = StartupOrder
    /\ last.op = "answer_question" =>
           /\ events = StartupOrder
           /\ chain.built
           /\ vectorstore # "None"
    /\ (last.op \in StartupOps /\ last.raised # NoExc) =>
           /\ pc = "exited"
           /\ exitStatus = 1
    /\ exitStatus # Running =>
           /\ pc = "exited"
           /\ exitStatus = 1
           /\ events # StartupOrder
           /\ served = NoServed

C10_Witness ==
    /\ last.op = "RAGChain"
    /\ last.raised # NoExc
    /\ events = <<"VectorStoreManager", "load_vectorstore">>
    /\ pc = "exited"
    /\ exitStatus = 1

----------------------------------------------------------------------------
(* DocumentProcessor *)

\* The file names of the documents directory, in the order the loader meets them.
FileName(i) == "doc" \o ToString(i) \o ".pdf"

\* PyPDFLoader: one Document per page, tagged with the file and the page index.
PagesOf(i, pages) ==
    [j \in 1..Len(pages) |->
        Document(Text(pages[j]), [source |-> FileName(i), page |-> j - 1])]

RECURSIVE LoadFrom(_, _)
LoadFrom(directory, i) ==
    IF i > Len(directory) THEN <<>>
    ELSE PagesOf(i, directory[i]) \o LoadFrom(directory, i + 1)

\* load_all_pdfs(directory): DirectoryLoader over **/*.pdf.  A file is the
\* sequence of the lengths of its pages' texts.  Reading can fail only where
\* there is a file to read.
load_all_pdfs(directory, loadOk) ==
    IF loadOk \/ Len(directory) = 0
    THEN [raised |-> NoExc, documents |-> LoadFrom(directory, 1)]
    ELSE [raised |-> Raise("PdfError", "cannot read a PDF file"), documents |-> <<>>]

\* RecursiveCharacterTextSplitter.split_text on a text that holds none of the
\* separators "\n\n", "\n", " ": it is cut at character boundaries, CHUNK_SIZE
\* characters a piece, each piece starting CHUNK_OVERLAP characters before the
\* end of the one before.  An empty text gives no piece.
RECURSIVE SplitFrom(_, _)
SplitFrom(text, start) ==
    IF Len(text) = 0 THEN <<>>
    ELSE LET end == Min(Len(text), start + CHUNK_SIZE)
         IN  IF end = Len(text)
             THEN <<SubSeq(text, start + 1, end)>>
             ELSE <<SubSeq(text, start + 1, end)>> \o SplitFrom(text, end - CHUNK_OVERLAP)

\* split_documents(documents): every piece carries a copy of its page's metadata.
RECURSIVE split_documents(_)
split_documents(documents) ==
    IF Len(documents) = 0 THEN <<>>
    ELSE LET doc == Head(documents)
             pieces == SplitFrom(doc.page_content, 0)
         IN  [i \in 1..Len(pieces) |-> Document(pieces[i], doc.metadata)]
             \o split_documents(Tail(documents))

\* metadata[key] = value
SetItem(meta, key, value) ==
    [k \in DOMAIN meta \cup {key} |-> IF k = key THEN value ELSE meta[k]]

chunk_documents_from_one(documents) ==
    LET chunks == split_documents(documents)
    IN  [idx \in 1..Len(chunks) |->
            [chunks[idx] EXCEPT !.metadata = SetItem(@, "chunk_id", idx)]]

\* chunk_documents(documents): split, then enumerate(chunks) numbers them from 0.
chunk_documents(documents) ==
    LET chunks == split_documents(documents)
    IN  [idx \in 1..Len(chunks) |->
            [chunks[idx] EXCEPT !.metadata = SetItem(@, "chunk_id", idx - 1)]]

NoPdfFiles == Raise("ValueError", "No PDF files found in data/documents")

process_documents_unchecked(directory, loadOk) ==
    LET loaded == load_all_pdfs(directory, loadOk)
        chunks == chunk_documents(loaded.documents)
    IN  IF loaded.raised # NoExc THEN [raised |-> loaded.raised, chunks |-> <<>>]
        ELSE IF Len(chunks) = 0
        THEN [raised |-> Raise("IndexError", "list index out of range"), chunks |-> <<>>]
        ELSE [raised |-> NoExc, chunks |-> chunks]

\* process_documents(directory): load, refuse an empty load, chunk, print the
\* first chunk as a sample (chunks[0]), return the chunks.
process_documents(directory, loadOk) ==
    LET loaded == load_all_pdfs(directory, loadOk)
        chunks == chunk_documents(loaded.documents)
    IN  IF loaded.raised # NoExc THEN [raised |-> loaded.raised, chunks |-> <<>>]
        ELSE IF Len(loaded.documents) = 0 THEN [raised |-> NoPdfFiles, chunks |-> <<>>]
        ELSE IF Len(chunks) = 0
        THEN [raised |-> Raise("IndexError", "list index out of range"), chunks |-> <<>>]
        ELSE [raised |-> NoExc, chunks |-> chunks]

----------------------------------------------------------------------------
(* The ingestion run: ingest.py *)

MaxFiles == 2       \* the documents directory holds at most this many PDF files

\* PDF files, each the lengths of its pages' texts: a short page, a page
\* without text, a page just past one chunk, two pages, a page of three chunks.
PdfFiles ==
    {<<1>>, <<0>>, <<CHUNK_SIZE + 1>>, <<CHUNK_SIZE, 1>>,
     <<2 * CHUNK_SIZE - CHUNK_OVERLAP + 1, 0>>}

Directories == UNION {[1..n -> PdfFiles] : n \in 0..MaxFiles}

IngestIdle == [op |-> "none", raised |-> NoExc, chunks |-> <<>>, printed |-> ""]

\* except Exception: print the error, sys.exit(1).
MainFailed(e) == [pc |-> "exited", exitStatus |-> 1, printed |-> "ERROR: " \o e.msg]

\* if not chunks: print, sys.exit(1).
MainNoChunks ==
    [pc |-> "exited", exitStatus |-> 1,
     printed |-> "No documents found. Please add PDF files to: data/documents"]

\* main(), to the end of step 1: chunks = processor.process_documents()
IngestProcess ==
    /\ pc = "start"
    /\ \E loadOk \in BOOLEAN :
        LET r == process_documents(given.directory, loadOk)
            out == IF r.raised # NoExc THEN MainFailed(r.raised)
                   ELSE IF Len(r.chunks) = 0 THEN MainNoChunks
                   ELSE [pc |-> "processed", exitStatus |-> exitStatus, printed |-> ""]
        IN  /\ last' = [op |-> "process_documents", raised |-> r.raised,
                        chunks |-> r.chunks, printed |-> out.printed]
            /\ pc' = out.pc
            /\ exitStatus' = out.exitStatus
            /\ events' = IF out.pc = "processed"
                         THEN Append(events, "process_documents") ELSE events
    /\ UNCHANGED <<disk, mem, vectorstore, chain, initDone, given, served>>

\* main(), step 2: VectorStoreManager(), create_vectorstore(chunks, persist=True),
\* then the closing prints.
IngestCreate ==
    /\ pc = "processed"
    /\ \E modelOk \in BOOLEAN, backendOk \in BOOLEAN :
        LET r == create_vectorstore(VectorStoreManagerInit, disk, mem, last.chunks,
                                    TRUE, backendOk)
            raised == IF ~modelOk
                      THEN Raise("EmbeddingError", "cannot load the embedding model")
                      ELSE r.raised
            out == IF raised # NoExc THEN MainFailed(raised)
                   ELSE [pc |-> "done", exitStatus |-> 0, printed |-> "INGESTION COMPLETE"]
        IN  /\ vectorstore' = IF modelOk THEN r.vectorstore ELSE vectorstore
            /\ disk' = IF modelOk THEN r.disk ELSE disk
            /\ initDone' = (initDone \/ raised = NoExc)
            /\ last' = [op |-> "create_vectorstore", raised |-> raised,
                        chunks |-> last.chunks, printed |-> out.printed]
            /\ pc' = out.pc
            /\ exitStatus' = out.exitStatus
            /\ events' = IF modelOk THEN Append(events, "create_vectorstore") ELSE events
    /\ UNCHANGED <<mem, chain, given, served>>

InitIngest ==
    /\ given \in [directory : Directories, disk : StoreSeeds]
    /\ disk = given.disk
    /\ mem = NoCollection
    /\ vectorstore = "None"
    /\ chain = NoChain
    /\ last = IngestIdle
    /\ initDone = FALSE
    /\ pc = "start"
    /\ exitStatus = Running
    /\ events = <<>>
    /\ served = NoServed

NextIngest ==
    \/ IngestProcess
    \/ IngestCreate

SpecIngest == InitIngest /\ [][NextIngest]_vars

\* C4: when the documents directory holds no PDF file, process_documents
\* raises the "No PDF files found" ValueError and returns no passage list; the
\* ingestion run prints the error and exits with status 1 without calling
\* create_vectorstore, and the persisted collection is as it was.
C4_NoDocumentsFound ==
    Len(given.directory) = 0 =>
        /\ last.op # "create_vectorstore"
        /\ "create_vectorstore" \notin {events[i] : i \in 1..Len(events)}
        /\ disk = given.disk
        /\ vectorstore = "None"
        /\ exitStatus \in {Running, 1}
        /\ last.op = "process_documents" =>
            /\ last.raised = NoPdfFiles
            /\ last.chunks = <<>>
            /\ last.printed = "ERROR: No PDF files found in data/documents"
            /\ pc = "exited"
            /\ exitStatus = 1

C4_Witness ==
    /\ Len(given.directory) = 0
    /\ given.disk.exists
    /\ last.op = "process_documents"
    /\ last.raised = NoPdfFiles
    /\ pc = "exited"
    /\ exitStatus = 1

OtherKeys(meta) == DOMAIN meta \ {"chunk_id"}

\* C9: the n passages chunk_documents returns carry the chunk ids 0..n-1 in
\* order (the passage at position i, counted from 0, has id i), and the
\* content and every other metadata field are those of the piece the splitter
\* cut from its page.
C9_ChunkIds ==
    (last.op = "process_documents" /\ last.raised = NoExc) =>
        LET pieces == split_documents(LoadFrom(given.directory, 1))
            chunks == last.chunks
            n == Len(chunks)
        IN  /\ n = Len(pieces)
            /\ \A i \in 1..n : chunks[i].metadata.chunk_id = i - 1
            /\ {chunks[i].metadata.chunk_id : i \in 1..n} = 0..(n - 1)
            /\ \A i, j \in 1..n :
                   i # j => chunks[i].metadata.chunk_id # chunks[j].metadata.chunk_id
            /\ \A i \in 1..n :
                   /\ chunks[i].page_content = pieces[i].page_content
                   /\ OtherKeys(chunks[i].metadata) = DOMAIN pieces[i].metadata
                   /\ \A key \in OtherKeys(chunks[i].metadata) :
                          chunks[i].metadata[key] = pieces[i].metadata[key]

C9_Witness ==
    /\ last.op = "process_documents"
    /\ last.raised = NoExc
    /\ Len(last.chunks) >= 4
    /\ last.chunks[4].metadata.chunk_id = 3
    /\ last.chunks[4].metadata.source = "doc2.pdf"
    /\ last.chunks[1].metadata.source = "doc1.pdf"
    /\ last.chunks[1].metadata.page = 0
    /\ last.chunks[3].metadata.page = 0
    /\ Len(last.chunks[1].page_content) = CHUNK_SIZE

----------------------------------------------------------------------------
(* delete_collection *)

\* C11: delete_collection never changes whether the manager is initialized:
\* without a handle it raises nothing and deletes nothing; with one it
\* leaves the collection removed and the handle in place, so a retrieval
\* issued right after it does not fail with "Vector store not initialized".
C11_DeleteKeepsInitialization ==
    [][/\ last'.op = "delete_collection" =>
            /\ vectorstore' = vectorstore
            /\ vectorstore = "None" =>
                   /\ last'.raised = NoExc
                   /\ disk' = disk
                   /\ mem' = mem
            /\ vectorstore # "None" =>
                   /\ ~StoreOf(vectorstore', disk', mem').exists
                   /\ \A other \in {"disk", "mem"} \ {vectorstore} :
                          StoreOf(other, disk', mem') = StoreOf(other, disk, mem)
       /\ (last.op = "delete_collection" /\ last.wasInit
               /\ last'.op \in RetrievalOps) =>
            ~IsNotInitialized(last'.raised)]_vars

\* A search on a handle whose collection delete_collection has removed.
C11_Witness ==
    /\ last.op = "similarity_search"
    /\ vectorstore = "disk"
    /\ ~disk.exists
    /\ last.raised.type = "ChromaError"

====
